---- MODULE Spec2Model ----
(***************************************************************************)
(* STIX telemetry packet sizing (quicklook_tm_sizes.py, bulk_science.py)   *)
(* and the packing / daily-rate estimator (tmrates.py).                    *)
(*                                                                         *)
(* The program is a set of pure functions.  A behaviour of the state       *)
(* machine below is one call (op, args) with inputs drawn from bounded     *)
(* sets, and its outcome (result): the returned value, or the exception    *)
(* raised together with the locals bound so far.                           *)
(*                                                                         *)
(* Python numbers are modelled with their type, "int" or "float", and a    *)
(* float is the IEEE-754 double the program holds: the true divisions of   *)
(* lines 15 and 26 and the multiplication of line 28 round to the nearest  *)
(* double.                                                                 *)
(***************************************************************************)
EXTENDS Integers, Sequences, FiniteSets, TLC

VARIABLES op, args, result

vars == <<op, args, result>>

(***************************************************************************)
(* Bounds of the explored inputs.                                          *)
(***************************************************************************)
MaxEnergies == 3
MaxSamples == 3
MaxMasks == 2
MaxPeriod == 8

(***************************************************************************)
(* Natural numbers of any size, as sequences of limbs (least significant   *)
(* first, no leading zero limb): the 53-bit mantissas of doubles and their *)
(* exact products and quotients do not fit the integers of the checker.    *)
(***************************************************************************)
LimbBits == 14
Base == 2^LimbBits

Abs(x) == IF x < 0 THEN -x ELSE x

RECURSIVE GCD(_, _)
GCD(a, b) == IF b = 0 THEN a ELSE GCD(b, a % b)

\* number of bits of k >= 0
RECURSIVE BitLen(_)
BitLen(k) == IF k = 0 THEN 0 ELSE 1 + BitLen(k \div 2)

RECURSIVE BigNat(_)
BigNat(k) == IF k = 0 THEN <<>> ELSE <<k % Base>> \o BigNat(k \div Base)

\* the value of a, for a below 2^31
RECURSIVE BigToNat(_)
BigToNat(a) == IF Len(a) = 0 THEN 0 ELSE a[1] + Base * BigToNat(Tail(a))

RECURSIVE BigTrim(_)
BigTrim(a) ==
    IF Len(a) > 0 /\ a[Len(a)] = 0 THEN BigTrim(SubSeq(a, 1, Len(a) - 1)) ELSE a

Limb(a, i) == IF i <= Len(a) THEN a[i] ELSE 0
Rest(a) == IF Len(a) = 0 THEN a ELSE Tail(a)

RECURSIVE BigAddC(_, _, _)
BigAddC(a, b, c) ==
    IF Len(a) = 0 /\ Len(b) = 0 THEN (IF c = 0 THEN <<>> ELSE <<c>>)
    ELSE LET x == Limb(a, 1) + Limb(b, 1) + c
         IN <<x % Base>> \o BigAddC(Rest(a), Rest(b), x \div Base)

BigAdd(a, b) == BigAddC(a, b, 0)

RECURSIVE BigSubB(_, _, _)
BigSubB(a, b, borrow) ==
    IF Len(a) = 0 THEN <<>>
    ELSE LET x == a[1] - Limb(b, 1) - borrow
         IN <<x % Base>> \o BigSubB(Tail(a), Rest(b), IF x < 0 THEN 1 ELSE 0)

\* a - b, for a >= b
BigSub(a, b) == BigTrim(BigSubB(a, b, 0))

RECURSIVE BigCmpTop(_, _, _)
BigCmpTop(a, b, i) ==
    IF i = 0 THEN 0
    ELSE IF a[i] # b[i] THEN (IF a[i] < b[i] THEN -1 ELSE 1)
    ELSE BigCmpTop(a, b, i - 1)

\* -1, 0, 1 as a < b, a = b, a > b
BigCmp(a, b) ==
    IF Len(a) # Len(b) THEN (IF Len(a) < Len(b) THEN -1 ELSE 1)
    ELSE BigCmpTop(a, b, Len(a))

RECURSIVE BigMulSmallC(_, _, _)
BigMulSmallC(a, k, c) ==
    IF Len(a) = 0 THEN BigNat(c)
    ELSE LET x == a[1] * k + c
         IN <<x % Base>> \o BigMulSmallC(Tail(a), k, x \div Base)

\* a * k, for 0 <= k < 2^17
BigMulSmall(a, k) == IF k = 0 THEN <<>> ELSE BigMulSmallC(a, k, 0)

RECURSIVE BigMul(_, _)
BigMul(a, b) ==
    IF Len(a) = 0 \/ Len(b) = 0 THEN <<>>
    ELSE LET r == BigMul(a, Tail(b))
         IN BigAdd(BigMulSmall(a, b[1]), IF Len(r) = 0 THEN r ELSE <<0>> \o r)

\* a * 2^s
BigShl(a, s) ==
    IF Len(a) = 0 THEN a
    ELSE [i \in 1 .. (s \div LimbBits) |-> 0] \o BigMulSmall(a, 2^(s % LimbBits))

BigBitLen(a) ==
    IF Len(a) = 0 THEN 0 ELSE LimbBits * (Len(a) - 1) + BitLen(a[Len(a)])

RECURSIVE BigDivSmallR(_, _, _)
BigDivSmallR(a, k, r) ==
    IF Len(a) = 0 THEN <<>>
    ELSE LET x == r * Base + a[Len(a)]
         IN BigDivSmallR(SubSeq(a, 1, Len(a) - 1), k, x % k) \o <<x \div k>>

\* floor(a / k), for 0 < k <= Base
BigDivSmall(a, k) == BigTrim(BigDivSmallR(a, k, 0))

\* <<hi, lo>> with a = hi * 2^s + lo and lo < 2^s
BigSplit(a, s) ==
    LET k == s \div LimbBits
        b == s % LimbBits
        low == SubSeq(a, 1, IF k < Len(a) THEN k ELSE Len(a))
        high == IF k >= Len(a) THEN <<>> ELSE SubSeq(a, k + 1, Len(a))
    IN <<BigDivSmall(high, 2^b),
         BigTrim(low \o (IF Len(high) > 0 THEN <<high[1] % (2^b)>> ELSE <<>>))>>

BigIsOdd(a) == Len(a) > 0 /\ a[1] % 2 = 1

(***************************************************************************)
(* Python numbers.                                                         *)
(*                                                                         *)
(* An int is [n, d |-> 1, t |-> "int"].  A float is an IEEE-754 double.    *)
(* A double whose value is n/d with d <= 256 and |n| < 2^30 (every whole   *)
(* number and bit count of the program) is kept as that fraction in lowest *)
(* terms; any other double is kept as sign n, d |-> 0, and its value       *)
(* m * 2^e with the mantissa m a 53-bit natural (2^52 <= m < 2^53).        *)
(* Either way a double has one representation.  True division and float    *)
(* multiplication round to nearest, ties to even.                          *)
(***************************************************************************)
MantBits == 52 + 1

\* the fraction n/d (d # 0) in lowest terms with a positive denominator
Norm(n, d, t) ==
    LET g == GCD(Abs(n), Abs(d))
        s == IF d < 0 THEN -1 ELSE 1
    IN [n |-> s * (n \div g), d |-> s * (d \div g), t |-> t, m |-> <<>>, e |-> 0]

PyInt(k) == [n |-> k, d |-> 1, t |-> "int", m |-> <<>>, e |-> 0]

\* a local that is not bound (yet)
Unbound == [n |-> 0, d |-> 1, t |-> "unbound", m |-> <<>>, e |-> 0]

\* sign, mantissa and exponent of a number a # 0 taken as a double:
\* a = Sign(a) * Mant(a) * 2^Expo(a), 2^52 <= Mant(a) < 2^53
Sign(a) == IF a.n < 0 THEN -1 ELSE 1

Mant(a) ==
    IF a.d = 0 THEN a.m
    ELSE BigShl(BigNat(Abs(a.n)), MantBits - BitLen(Abs(a.n)))

Expo(a) ==
    IF a.d = 0 THEN a.e
    ELSE BitLen(Abs(a.n)) - MantBits - (BitLen(a.d) - 1)

\* the double s * m * 2^e, for a 53-bit mantissa m: the fraction n / 2^k
\* with the least k <= 8 for which n is whole, if there is one and
\* |n| < 2^30
Double(s, m, e) ==
    LET Whole(k) == e + k <= 0 /\ Len(BigSplit(m, -(e + k))[2]) = 0
        ks == {k \in 0 .. 8 : Whole(k)}
        k == CHOOSE x \in ks : \A y \in ks : x <= y
        n == BigSplit(m, -(e + k))[1]
    IN IF ks # {} /\ BigBitLen(n) <= 30
       THEN Norm(s * BigToNat(n), 2^k, "float")
       ELSE [n |-> s, d |-> 0, t |-> "float", m |-> m, e |-> e]

\* the double nearest to s * q * 2^e, ties to even: q has 53 bits and is
\* followed by a discarded part that compares as c (-1, 0, 1) with one half
Rounded(s, q, c, e) ==
    LET q1 == IF c > 0 \/ (c = 0 /\ BigIsOdd(q)) THEN BigAdd(q, <<1>>) ELSE q
    IN IF BigBitLen(q1) > MantBits
       THEN Double(s, BigDivSmall(q1, 2), e + 1)
       ELSE Double(s, q1, e)

\* the quotient bits of r / b, for b <= r < 2b, from the first (a one) to
\* the 53rd: <<quotient, 2 * remainder>>
RECURSIVE DivBits(_, _, _)
DivBits(r, b, q) ==
    IF BigBitLen(q) = MantBits THEN <<q, r>>
    ELSE IF BigCmp(r, b) >= 0
    THEN DivBits(BigMulSmall(BigSub(r, b), 2), b, BigAdd(BigMulSmall(q, 2), <<1>>))
    ELSE DivBits(BigMulSmall(r, 2), b, BigMulSmall(q, 2))

\* int op int is int, anything with a float is float
Coerce(a, b) == IF a.t = "int" /\ b.t = "int" THEN "int" ELSE "float"

\* a + b and a - b; the operands of the program's sums are whole numbers
\* below 2^30, for which float addition is exact
PyAdd(a, b) == Norm(a.n * b.d + b.n * a.d, a.d * b.d, Coerce(a, b))

PyNeg(a) == [a EXCEPT !.n = -a.n]

PySub(a, b) == PyAdd(a, PyNeg(b))

\* a * b: exact on ints, rounded to the nearest double otherwise
PyMul(a, b) ==
    IF a.t = "int" /\ b.t = "int" THEN PyInt(a.n * b.n)
    ELSE IF a.n = 0 \/ b.n = 0 THEN Norm(0, 1, "float")
    ELSE LET p == BigMul(Mant(a), Mant(b))
             drop == BigBitLen(p) - MantBits
             sp == BigSplit(p, drop)
         IN Rounded(Sign(a) * Sign(b), sp[1],
                    BigCmp(sp[2], BigShl(<<1>>, drop - 1)),
                    Expo(a) + Expo(b) + drop)

\* a / b, b # 0: true division always gives a float, the double nearest to
\* the quotient.  For b = 0 Python raises ZeroDivisionError: the lines that
\* divide (Line15, Line26) raise it before they apply this operator.
PyTrueDiv(a, b) ==
    IF a.n = 0 THEN Norm(0, 1, "float")
    ELSE LET ge == BigCmp(Mant(a), Mant(b)) >= 0
             qr == DivBits(IF ge THEN Mant(a) ELSE BigMulSmall(Mant(a), 2),
                           Mant(b), <<>>)
         IN Rounded(Sign(a) * Sign(b), qr[1], BigCmp(qr[2], Mant(b)),
                    Expo(a) - Expo(b) - (IF ge THEN 0 ELSE 1) - (MantBits - 1))

\* the float literal written n/d in decimal: the double nearest to it
PyFloat(n, d) == PyTrueDiv(PyInt(n), PyInt(d))

\* floor(x / y), y # 0
FloorDiv(x, y) == IF y > 0 THEN x \div y ELSE (-x) \div (-y)

\* divmod(a, b), b # 0: q = floor(a / b), r = a - q*b (r has the sign of b);
\* the operands of the program's divmod are whole numbers below 2^30
PyDivmod(a, b) ==
    LET t == Coerce(a, b)
        q == Norm(FloorDiv(a.n * b.d, a.d * b.n), 1, t)
    IN <<q, PySub(a, PyMul(q, b))>>

\* float.is_integer()
IsInteger(a) ==
    IF a.d = 0
    THEN a.e >= 0 \/ (-a.e < MantBits /\ Len(BigSplit(a.m, -a.e)[2]) = 0)
    ELSE a.d = 1

\* comparisons of numbers kept as fractions
PyLe(a, b) == a.n * b.d <= b.n * a.d
PyLt(a, b) == a.n * b.d < b.n * a.d
PyEq(a, b) == a.n * b.d = b.n * a.d

\* t1 + t2 + ... + tk, evaluated left to right
RECURSIVE PySum(_)
PySum(terms) ==
    IF Len(terms) = 1 THEN terms[1]
    ELSE PyAdd(PySum(SubSeq(terms, 1, Len(terms) - 1)), terms[Len(terms)])

(***************************************************************************)
(* Outcomes of a size function.                                            *)
(***************************************************************************)
Sizes(fixed, variable) ==
    [status |-> "ok", fixed |-> fixed, variable |-> variable, detail |-> ""]

Raises(exc, detail) ==
    [status |-> exc, fixed |-> Unbound, variable |-> Unbound, detail |-> detail]

(***************************************************************************)
(* quicklook_tm_sizes.py                                                   *)
(***************************************************************************)
light_curve(num_energies, num_samples) ==
    LET fixed_header == PySum(<<
            PyInt(1*8),     \* SSID
            PyInt(4*8),     \* SCET Coarse time
            PyInt(2*8),     \* SCET Fine time
            PyInt(2*8),     \* Integration time
            PyInt(4*8),     \* Detector mask
            PyInt(4),       \* spare
            PyInt(12),      \* Pixel mask
            PyInt(1),       \* spare
            PyInt(1),       \* Comp Schema light curve S
            PyInt(3),       \* Comp Schema light curve K
            PyInt(3),       \* Comp Schema light curve M
            PyInt(1),       \* Comp Schema trigger S
            PyInt(3),       \* Comp Schema trigger K
            PyInt(3),       \* Comp Schema trigger M
            PyInt(1),       \* Energy bin mask upper boundary
            PyInt(4*8),     \* Energy bin mask lower boundary
            PyInt(1*8),     \* Number of energies
            PyInt(num_energies*2*8),  \* Number data points
            PyInt(2*8),     \* Number of data points
            PyInt(2*8)      \* Number of data point
            >>)
        variable == PySum(<<
            PyInt(num_energies*num_samples*8),  \* Compressed light curves
            PyInt(num_samples*8),               \* Compressed triggers
            PyInt(num_samples*8)                \* RCR
            >>)
    IN Sizes(fixed_header, variable)

background(num_energies, num_samples) ==
    LET fixed_header == PySum(<<
            PyInt(1*8),     \* SSID
            PyInt(4*8),     \* SCET Coarse time
            PyInt(2*8),     \* SCET Fine time
            PyInt(2*8),     \* Integration time
            PyInt(1),       \* Comp Schema background S
            PyInt(3),       \* Comp Schema background K
            PyInt(3),       \* Comp Schema background M
            PyInt(1),       \* Comp Schema trigger S
            PyInt(3),       \* Comp Schema trigger K
            PyInt(3),       \* Comp Schema trigger M
            PyInt(1),       \* Energy bin mask upper boundary
            PyInt(4*8),     \* Energy bin mask lower boundary
            PyFloat(1, 1),  \* Spare: the literal is written 1.
            PyInt(1*8),     \* Number of energies
            PyInt(num_energies*2*8),  \* Number data points
            PyInt(2*8)      \* Number of data points
            >>)
        variable == PySum(<<
            PyInt(num_energies*num_samples*8),  \* Compressed background
            PyInt(num_samples*8)                \* Compressed triggers
            >>)
    IN Sizes(fixed_header, variable)

\* variance with one data-point byte per (energy, sample), as in light_curve
variance_per_energy(num_energies, num_samples) ==
    LET fixed_header == PyInt(184)
        variable == PyMul(PyInt(num_energies*num_samples*1), PyFloat(8, 1))
    IN Sizes(fixed_header, variable)

variance(num_energies, num_samples) ==
    LET fixed_header == PySum(<<
            PyInt(1*8),     \* SSID
            PyInt(4*8),     \* SCET Coarse time
            PyInt(2*8),     \* SCET Fine time
            PyInt(2*8),     \* Integration time
            PyInt(1*8),     \* Samples per variance
            PyInt(4*8),     \* Detector mask
            PyInt(4*8),     \* Energy mask
            PyInt(4),       \* Spare
            PyInt(12),      \* Pixel mask
            PyInt(1),       \* Spare
            PyInt(1),       \* Comp Schema variance S
            PyInt(3),       \* Comp Schema variance K
            PyInt(3),       \* Comp Schema variance M
            PyInt(2*8)      \* Number of data points
            >>)
        \* num_samples*1*8. : the literal 8. is a float
        variable == PyMul(PyInt(num_samples*1), PyFloat(8, 1))
    IN Sizes(fixed_header, variable)

spectra(num_energies, num_samples) ==
    LET fixed_header == PySum(<<
            PyInt(1*8),     \* SSID
            PyInt(4*8),     \* SCET Coarse time
            PyInt(2*8),     \* SCET Fine time
            PyInt(2*8),     \* Integration time
            PyInt(1),       \* Spare
            PyInt(1),       \* Comp Schema spectra S
            PyInt(3),       \* Comp Schema spectra K
            PyInt(3),       \* Comp Schema spectra M
            PyInt(1),       \* Spare
            PyInt(1),       \* Comp Schema trigger S
            PyInt(3),       \* Comp Schema trigger S
            PyInt(3),       \* Comp Schema trigger S
            PyInt(4),       \* Spare
            PyInt(12),      \* Pixel mask
            PyInt(2*8)      \* Number of data samples
            >>)
        variable == PyMul(PyInt(num_samples), PySum(<<
            PyInt(1*8),     \* Detector index
            PyInt(32*8),    \* Spectrum x 32
            PyInt(1*8),     \* Trigger
            PyInt(1*8)      \* Number of integrations
            >>))
    IN Sizes(fixed_header, variable)

flare_flag_location(num_energies, num_samples) ==
    LET fixed_header == PySum(<<
            PyInt(1*8),     \* SSID
            PyInt(4*8),     \* SCET Coarse time
            PyInt(2*8),     \* SCET Fine time
            PyInt(2*8),     \* Integration time
            PyInt(2*8)      \* Number of data samples
            >>)
        variable == PyMul(PyInt(num_samples), PySum(<<
            PyInt(1*8),     \* Flare
            PyInt(1*8),     \* Flare location z (arcmin)
            PyInt(1*8)      \* Flare location y (arcmin)
            >>))
    IN Sizes(fixed_header, variable)

\* the first parameter is named _ in the source
flarelist_tm_mgmt(unused, num_samples) ==
    LET fixed_header == PySum(<<
            PyInt(1*8),     \* SSID
            PyInt(4*8),     \* UBSD counter
            PyInt(4*8),     \* PALD counter
            PyInt(2*8)      \* Number of flares
            >>)
        variable == PyMul(PyInt(num_samples), PySum(<<
            PyInt(4*8),     \* Start time
            PyInt(4*8),     \* End time
            PyInt(1*8),     \* highest flare flag
            PyInt(4*8),     \* TM byte volume
            PyInt(1*8),     \* Avg z location
            PyInt(1*8),     \* Avg Y location
            PyInt(1*8)      \* Processing status
            >>))
    IN Sizes(fixed_header, variable)

calibration_spectra(num_energies, num_samples) ==
    LET fixed_header == PySum(<<
            PyInt(1*8),     \* SSID
            PyInt(4*8),     \* SCET Coarse time
            PyInt(4*8),     \* Duration
            PyInt(2*8),     \* Quiet time
            PyInt(4*4),     \* Live time
            PyInt(2*8),     \* Avg Temperature
            PyInt(1),       \* Spare
            PyInt(1),       \* Comp Schema accum S
            PyInt(3),       \* Comp Schema accum K
            PyInt(3),       \* Comp Schema accum M
            PyInt(4*8),     \* Detector mask
            PyInt(4),       \* Spare
            PyInt(12),      \* Pixel mask
            PyInt(1*8),     \* Sub spectrum mask
            PyInt(2),       \* Spare
            PyInt(8*(2 + 10 + 10 + 10)),  \* 8 x sub spectrum descriptor
            PyInt(2*8)      \* Number of structure in packet
            >>)
        variable == PyMul(PyInt(num_samples), PySum(<<
            PyInt(4),       \* Spare
            PyInt(5),       \* Detector ID
            PyInt(4),       \* Pixel ID
            PyInt(3),       \* Sub spec ID
            PyInt(16),      \* Number of compressed spectral points
            PyInt(num_energies*1*8)  \* Compressed spectral point
            >>))
    IN Sizes(fixed_header, variable)

(***************************************************************************)
(* bulk_science.py                                                         *)
(*                                                                         *)
(* Each function is modelled by what its own definition does.  The bodies  *)
(* of xray_level3 and aspect are not well-formed expressions (a missing    *)
(* operator between two terms), which is a SyntaxError; because Python     *)
(* compiles a file as a whole, that error is raised when the file is       *)
(* loaded.  xray_level1 reads two names that nothing binds.                *)
(***************************************************************************)
COMMON_XRAY_USER ==
    8 + 16 + 16 + 32 + 1 + 1 + 3 + 3 + 1 + 1 + 3 + 3 + 48 + 16

\* the names a function body of bulk_science.py can read besides its own
\* parameters: the module's globals
BulkGlobals ==
    {"COMMON_XRAY_USER", "xray_level0", "xray_level1", "xray_level2",
     "xray_level3", "spectrogram", "aspect"}

xray_level0(num_samples) ==
    LET fixed == PySum(<<
            PyInt(2*8),     \* Starting time
            PyInt(1*8),     \* RCR
            PyInt(2*8),     \* Integration time
            PyInt(4),       \* Spare
            PyInt(12),      \* Pixel mask
            PyInt(32),      \* Detector mask
            PyInt(15*8),    \* Trigger accumulators
            PyInt(2*8)      \* Number of samples (M)
            >>)
        variable == PyMul(PyInt(num_samples), PySum(<<
            PyInt(4),       \* Pixel ID
            PyInt(5),       \* Detector Index
            PyInt(5),       \* Energy ID
            PyInt(2),       \* Continuation Bits
            PyInt(2*8)      \* Assume worst case 2 bytes for counts
            >>))
    IN Sizes(fixed, variable)

xray_level1(num_pixel_sets, num_energy_groups, num_detector_masks) ==
    LET env == [num_pixel_sets |-> num_pixel_sets,
                num_energy_groups |-> num_energy_groups,
                num_detector_masks |-> num_detector_masks]
        Bound(name) == name \in DOMAIN env \/ name \in BulkGlobals
        fixed == PySum(<<
            PyInt(2*8),     \* Starting time
            PyInt(1*8),     \* RCR
            PyInt(1*8),     \* Number of pixel sets P
            PyInt(env["num_pixel"] * (4 + 12)),  \* Spare, Pixel mask for set P
            PyInt(32),      \* M detector masks
            PyInt(2*8),     \* Integration time
            PyInt(15*8),    \* Trigger Accumulators
            PyInt(1*8)      \* Number of Energies
            >>)
        variable == PyMul(PyInt(env["num_energies"]), PySum(<<
            PyInt(3),       \* Spare
            PyInt(5),       \* E1 low bound
            PyInt(3),       \* Spare
            PyInt(5),       \* E2 high bound
            PyInt(16),      \* Number of data elements
            PyInt(num_pixel_sets * num_detector_masks * 8)  \* Compressed counts
            >>))
    IN IF ~Bound("num_pixel") THEN Raises("NameError", "num_pixel")
       ELSE IF ~Bound("num_energies") THEN Raises("NameError", "num_energies")
       ELSE Sizes(fixed, variable)

\* xray_level2 wrapping the level 0 structure instead of level 1
xray_level2_wraps_level0(num_pixel_sets, num_energy_groups, num_detector_masks) ==
    xray_level0(num_pixel_sets)

xray_level2(num_pixel_sets, num_energy_groups, num_detector_masks) ==
    xray_level1(num_pixel_sets, num_energy_groups, num_detector_masks)

\* "+ 8  # Number of detectors N" is followed by "num_detector_masks * ("
\* with no operator in between (lines 224-225)
xray_level3(num_pixel_sets, num_energy_groups, num_detector_masks) ==
    Raises("SyntaxError", "line 219")

\* spectrogram with the per-energy bytes subtracted instead of added
spectrogram_minus_energies(num_samples, num_energies) ==
    LET fixed == PyInt(104)
        variable == PyMul(PyInt(num_samples),
                          PyInt(2*8 + 1*8 + 1*8 - num_energies * 8))
    IN Sizes(fixed, variable)

spectrogram(num_samples, num_energies) ==
    LET fixed == PySum(<<
            PyInt(4),       \* Spare
            PyInt(12),      \* Pixel mask
            PyInt(4*8),     \* Detectors mask
            PyInt(1*8),     \* RCR
            PyInt(1),       \* Spare
            PyInt(5),       \* Emin
            PyInt(5),       \* Emax
            PyInt(5),       \* E unit
            PyInt(2*8),     \* Number of samples N
            PyInt(2*8)      \* Closing time offset
            >>)
        variable == PyMul(PyInt(num_samples), PySum(<<
            PyInt(2*8),     \* Delta time
            PyInt(1*8),     \* Compress combined trigger count
            PyInt(1*8),     \* Number of energies M
            PyInt(num_energies * 8)
            >>))
    IN Sizes(fixed, variable)

\* the four diode voltage terms "2*8" follow each other with no operator
\* in between (lines 302-305)
aspect(num_samples) ==
    Raises("SyntaxError", "line 302")

(***************************************************************************)
(* tmrates.py                                                              *)
(***************************************************************************)
\* Packet size data in bits
PACKET_DEF == [header |-> 6*8, data_header |-> 10*8, data |-> 4096*8]

\* The product argument of calculate_tm_rate is any callable taking
\* (num_energies, num_samples).  A product is a record: name is one of the
\* quicklook functions tmrates.py imports, or "synthetic" for a caller's own
\* callable that returns the constant pair (fixed, variable).  named tells
\* whether the callable has a __name__, which line 32 reads: a function or
\* a lambda has one, a functools.partial or a callable instance has none.
QuicklookNames ==
    {"light_curve", "background", "variance", "spectra",
     "flare_flag_location", "flarelist_tm_mgmt", "calibration_spectra"}

Quicklook(name) ==
    [name |-> name, fixed |-> Unbound, variable |-> Unbound, named |-> TRUE]
Synthetic(f, v, named) ==
    [name |-> "synthetic", fixed |-> f, variable |-> v, named |-> named]

\* product(num_energies, num_samples)
CallProduct(product, num_energies, num_samples) ==
    CASE product.name = "light_curve" -> light_curve(num_energies, num_samples)
      [] product.name = "background" -> background(num_energies, num_samples)
      [] product.name = "variance" -> variance(num_energies, num_samples)
      [] product.name = "spectra" -> spectra(num_energies, num_samples)
      [] product.name = "flare_flag_location" ->
            flare_flag_location(num_energies, num_samples)
      [] product.name = "flarelist_tm_mgmt" ->
            flarelist_tm_mgmt(num_energies, num_samples)
      [] product.name = "calibration_spectra" ->
            calibration_spectra(num_energies, num_samples)
      [] product.name = "synthetic" -> Sizes(product.fixed, product.variable)

\* line 15: num_data = 24 * 60 * 60 / integration_time, integration_time # 0
NumData(integration_time) == PyTrueDiv(PyInt(24 * 60 * 60), integration_time)

\* PacketSpace with the data-field header taken out of the payload as well
PacketSpaceLessHeader(fixed) ==
    PySub(PyInt(PACKET_DEF.data - PACKET_DEF.data_header), fixed)

\* line 20: packet_space = PACKET_DEF['data'] - fixed
PacketSpace(fixed) == PySub(PyInt(PACKET_DEF.data), fixed)

\* NumPackets rounded up to whole packets: ceil(num_data / data_per_packet)
NumPacketsCeil(num_data, data_per_packet) ==
    Norm(-FloorDiv(-num_data.n, data_per_packet.n), 1, "float")

\* line 26: num_packets = num_data / data_per_packet
NumPackets(num_data, data_per_packet) == PyTrueDiv(num_data, data_per_packet)

\* line 28: total_size = num_packets * (fixed + data_per_packet*variable)
TotalSize(num_packets, fixed, data_per_packet, variable) ==
    PyMul(num_packets, PyAdd(fixed, PyMul(data_per_packet, variable)))

\* The outcome of calculate_tm_rate: the exception raised or "ok", the line
\* that raised, the locals bound when the function was left, and the
\* returned value (total_size).  The function is written from its last
\* line to its first: each definition is the function from one line on,
\* given the locals bound so far.

\* leaving the function by an exception
Raise(locals, exception, line) ==
    [locals EXCEPT !.status = exception, !.line = line]

\* lines 30-35: the print reads product.__name__, which raises
\* AttributeError for a callable without that attribute; then
\* return total_size
Line30(product, locals) ==
    IF ~product.named
    THEN Raise(locals, "AttributeError", 32)
    ELSE [locals EXCEPT !.returned = locals.total_size]

\* line 28
Line28(product, locals) ==
    Line30(product,
           [locals EXCEPT !.total_size =
                TotalSize(locals.num_packets, locals.fixed,
                          locals.data_per_packet, locals.variable)])

\* line 26: the true division raises for data_per_packet = 0
Line26(product, locals) ==
    IF locals.data_per_packet.n = 0
    THEN Raise(locals, "ZeroDivisionError", 26)
    ELSE Line28(product,
                [locals EXCEPT !.num_packets =
                     NumPackets(locals.num_data, locals.data_per_packet)])

\* the assignment of line 23
Bind23(product, locals, dm) ==
    Line26(product, [locals EXCEPT !.data_per_packet = dm[1], !.rem = dm[2]])

\* line 23: divmod raises for variable = 0
Line23(product, locals) ==
    IF locals.variable.n = 0
    THEN Raise(locals, "ZeroDivisionError", 23)
    ELSE Bind23(product, locals, PyDivmod(locals.packet_space, locals.variable))

\* line 20
Line20(product, locals) ==
    Line23(product, [locals EXCEPT !.packet_space = PacketSpace(locals.fixed)])

\* lines 16-18: the cadence check
Line16(product, locals) ==
    IF ~IsInteger(locals.num_data)
    THEN Raise(locals, "ValueError", 17)
    ELSE Line20(product, locals)

\* line 15: the true division raises for integration_time = 0
Line15(product, integration_time, locals) ==
    IF integration_time.n = 0
    THEN Raise(locals, "ZeroDivisionError", 15)
    ELSE Line16(product, [locals EXCEPT !.num_data = NumData(integration_time)])

\* the assignment of line 14
Bind14(product, integration_time, sizes) ==
    Line15(product, integration_time,
           [status |-> "ok", line |-> 0,
            fixed |-> sizes.fixed, variable |-> sizes.variable,
            num_data |-> Unbound, packet_space |-> Unbound,
            data_per_packet |-> Unbound, rem |-> Unbound,
            num_packets |-> Unbound, total_size |-> Unbound,
            returned |-> Unbound])

\* line 14: fixed, variable = product(num_energies, 1)
calculate_tm_rate(product, num_energies, integration_time) ==
    Bind14(product, integration_time, CallProduct(product, num_energies, 1))

(***************************************************************************)
(* Inputs.                                                                 *)
(***************************************************************************)
\* energy-bin counts: the small ones, those of the driver's calls (run), and
\* the light-curve counts at which one record no longer fits (1357), the
\* fixed header fills the payload exactly (2035) and overflows it (2036)
Energies == (0 .. MaxEnergies) \cup {5, 32, 64, 1357, 2035, 2036}

Samples == 0 .. MaxSamples

Masks == 0 .. MaxMasks

\* integration periods in seconds: the small ones from 0 on, those of the
\* driver's calls (32, 288 and the float 56.25), and the float literals 2.4
\* and 2.7, whose doubles are not the decimal values written
Periods ==
    {PyInt(k) : k \in 0 .. MaxPeriod}
    \cup {PyInt(32), PyInt(288), PyFloat(225, 4), PyFloat(24, 10), PyFloat(27, 10)}

\* callables of a caller that return a constant pair: functions or lambdas,
\* and three callables without a __name__
SyntheticProducts ==
    {Synthetic(PyInt(f), PyInt(v), TRUE) :
        f \in {0, 184, 32767, 32768, 32769}, v \in {-8, 0, 8, 40000}}
    \cup {Synthetic(PyInt(184), PyInt(8), FALSE),
          Synthetic(PyInt(0), PyInt(0), FALSE),
          Synthetic(PyInt(32769), PyInt(8), FALSE)}

Products == {Quicklook(name) : name \in QuicklookNames} \cup SyntheticProducts

(***************************************************************************)
(* The state machine: a run is one call with its arguments (Init), and the *)
(* step that executes it.                                                  *)
(***************************************************************************)
ES(ne, ns) == [num_energies |-> ne, num_samples |-> ns]
SE(ns, ne) == [num_samples |-> ns, num_energies |-> ne]
S1(ns) == [num_samples |-> ns]
PEM(p, e, m) ==
    [num_pixel_sets |-> p, num_energy_groups |-> e, num_detector_masks |-> m]

\* the size functions, by name, applied to a record of arguments
SizeOps ==
    QuicklookNames \cup {"xray_level0", "xray_level1", "xray_level2",
                         "xray_level3", "spectrogram", "aspect"}

SizeCall(f, a) ==
    CASE f \in QuicklookNames ->
            CallProduct(Quicklook(f), a.num_energies, a.num_samples)
      [] f = "xray_level0" -> xray_level0(a.num_samples)
      [] f = "xray_level1" ->
            xray_level1(a.num_pixel_sets, a.num_energy_groups, a.num_detector_masks)
      [] f = "xray_level2" ->
            xray_level2(a.num_pixel_sets, a.num_energy_groups, a.num_detector_masks)
      [] f = "xray_level3" ->
            xray_level3(a.num_pixel_sets, a.num_energy_groups, a.num_detector_masks)
      [] f = "spectrogram" -> spectrogram(a.num_samples, a.num_energies)
      [] f = "aspect" -> aspect(a.num_samples)

\* a call that has not run yet
Pending == [status |-> "pending"]

\* the calls explored: a function and its arguments
Calls ==
    ({f \in QuicklookNames : TRUE} \X {ES(ne, ns) : ne \in Energies, ns \in Samples})
    \cup ({"xray_level0", "aspect"} \X {S1(ns) : ns \in Samples})
    \cup ({"xray_level1", "xray_level2", "xray_level3"}
            \X {PEM(p, e, m) : p \in Masks, e \in Energies, m \in Masks})
    \cup ({"spectrogram"} \X {SE(ns, ne) : ns \in Samples, ne \in Energies})
    \cup ({"calculate_tm_rate"}
            \X {[product |-> product, num_energies |-> ne, integration_time |-> it] :
                    product \in Products, ne \in Energies, it \in Periods})

Init ==
    \E c \in Calls :
        /\ op = c[1]
        /\ args = c[2]
        /\ result = Pending

Call_light_curve ==
    /\ op = "light_curve"
    /\ result = Pending
    /\ result' = light_curve(args.num_energies, args.num_samples)
    /\ UNCHANGED <<op, args>>

Call_background ==
    /\ op = "background"
    /\ result = Pending
    /\ result' = background(args.num_energies, args.num_samples)
    /\ UNCHANGED <<op, args>>

Call_variance ==
    /\ op = "variance"
    /\ result = Pending
    /\ result' = variance(args.num_energies, args.num_samples)
    /\ UNCHANGED <<op, args>>

Call_spectra ==
    /\ op = "spectra"
    /\ result = Pending
    /\ result' = spectra(args.num_energies, args.num_samples)
    /\ UNCHANGED <<op, args>>

Call_flare_flag_location ==
    /\ op = "flare_flag_location"
    /\ result = Pending
    /\ result' = flare_flag_location(args.num_energies, args.num_samples)
    /\ UNCHANGED <<op, args>>

Call_flarelist_tm_mgmt ==
    /\ op = "flarelist_tm_mgmt"
    /\ result = Pending
    /\ result' = flarelist_tm_mgmt(args.num_energies, args.num_samples)
    /\ UNCHANGED <<op, args>>

Call_calibration_spectra ==
    /\ op = "calibration_spectra"
    /\ result = Pending
    /\ result' = calibration_spectra(args.num_energies, args.num_samples)
    /\ UNCHANGED <<op, args>>

Call_xray_level0 ==
    /\ op = "xray_level0"
    /\ result = Pending
    /\ result' = xray_level0(args.num_samples)
    /\ UNCHANGED <<op, args>>

Call_aspect ==
    /\ op = "aspect"
    /\ result = Pending
    /\ result' = aspect(args.num_samples)
    /\ UNCHANGED <<op, args>>

Call_xray_level1 ==
    /\ op = "xray_level1"
    /\ result = Pending
    /\ result' = xray_level1(args.num_pixel_sets, args.num_energy_groups,
                           args.num_detector_masks)
    /\ UNCHANGED <<op, args>>

Call_xray_level2 ==
    /\ op = "xray_level2"
    /\ result = Pending
    /\ result' = xray_level2(args.num_pixel_sets, args.num_energy_groups,
                           args.num_detector_masks)
    /\ UNCHANGED <<op, args>>

Call_xray_level3 ==
    /\ op = "xray_level3"
    /\ result = Pending
    /\ result' = xray_level3(args.num_pixel_sets, args.num_energy_groups,
                           args.num_detector_masks)
    /\ UNCHANGED <<op, args>>

Call_spectrogram ==
    /\ op = "spectrogram"
    /\ result = Pending
    /\ result' = spectrogram(args.num_samples, args.num_energies)
    /\ UNCHANGED <<op, args>>

Call_calculate_tm_rate ==
    /\ op = "calculate_tm_rate"
    /\ result = Pending
    /\ result' = calculate_tm_rate(args.product, args.num_energies,
                                   args.integration_time)
    /\ UNCHANGED <<op, args>>

Next ==
    \/ Call_light_curve
    \/ Call_background
    \/ Call_variance
    \/ Call_spectra
    \/ Call_flare_flag_location
    \/ Call_flarelist_tm_mgmt
    \/ Call_calibration_spectra
    \/ Call_xray_level0
    \/ Call_xray_level1
    \/ Call_xray_level2
    \/ Call_xray_level3
    \/ Call_spectrogram
    \/ Call_aspect
    \/ Call_calculate_tm_rate

Spec == Init /\ [][Next]_vars

(***************************************************************************)
(* Properties.                                                             *)
(***************************************************************************)
Done == result # Pending

IsRate == op = "calculate_tm_rate" /\ Done

\* the maximum payload and the seconds of a day, written out
Capacity == 32768
DaySeconds == 86400

\* a without its factors of two, for a # 0
RECURSIVE OddPart(_)
OddPart(a) == IF BigIsOdd(a) THEN a ELSE OddPart(BigDivSmall(a, 2))

\* 86400 / integration_time is a whole number, for the exact value of a
\* period it >= 0.  A double m * 2^e that is no small fraction divides
\* 86400 = 2^7 * 675 when the odd part of m divides 675 and the power of
\* two left over is at most 2^7.
Divides(it) ==
    IF it.d = 0
    THEN LET o == OddPart(it.m)
         IN /\ BigBitLen(o) <= 10
            /\ (DaySeconds \div 2^7) % BigToNat(o) = 0
            /\ BigBitLen(it.m) - BigBitLen(o) + it.e <= 7
    ELSE it.n > 0 /\ (DaySeconds * it.d) % it.n = 0

\* the double x times the integer k is s * T up to the relative error
\* 2^-j: |x * k - s * T| * 2^j <= T, for x # 0, k # 0, a natural T of any
\* size and its sign s
Close(x, k, s, T, j) ==
    LET e == Expo(x)
        A == BigMul(Mant(x), BigNat(Abs(k)))
        lhs == IF e >= 0 THEN BigShl(A, e) ELSE A
        rhs == IF e >= 0 THEN T ELSE BigShl(T, -e)
        diff == IF BigCmp(lhs, rhs) >= 0 THEN BigSub(lhs, rhs) ELSE BigSub(rhs, lhs)
    IN /\ Sign(x) * (IF k < 0 THEN -1 ELSE 1) = s
       /\ BigCmp(IF j < 0 THEN diff ELSE BigShl(diff, j),
                 IF j < 0 THEN <<>> ELSE rhs) <= 0

\* the double x times the integer k is exactly s * T
Exactly(x, k, s, T) == Close(x, k, s, T, -1)

\* calculate_tm_rate got past the divmod of line 23
Divided == IsRate /\ result.data_per_packet.t # "unbound"

\* C1: packing identity.  Whenever calculate_tm_rate has computed
\* (data_per_packet, rem) for a product with capacity > fixed and
\* variable > 0, data_per_packet * variable + rem = capacity - fixed,
\* 0 <= rem < variable and data_per_packet = floor((capacity - fixed) / variable).
C1_PackingIdentity ==
    (Divided /\ result.fixed.n < Capacity * result.fixed.d /\ result.variable.n > 0) =>
        LET f == result.fixed
            v == result.variable
            q == result.data_per_packet
            r == result.rem
        IN /\ f.d = 1 /\ v.d = 1 /\ q.d = 1 /\ r.d = 1
           /\ q.n * v.n + r.n = Capacity - f.n
           /\ 0 <= r.n /\ r.n < v.n
           /\ q.n = (Capacity - f.n) \div v.n

\* a successful estimation that leaves unused bits in the packet
C1_Witness ==
    /\ Divided /\ result.status = "ok"
    /\ result.fixed.n < Capacity /\ result.variable.n > 0
    /\ result.rem.n > 0 /\ result.data_per_packet.n > 1

\* C2: calculate_tm_rate raises the ValueError of the cadence check exactly
\* when the integration period does not divide 86400 s; 5 s is accepted
\* (17280 records per day) and 7 s is rejected.
C2_CadenceCheck ==
    IsRate =>
        /\ (result.status = "ValueError") <=> ~Divides(args.integration_time)
        /\ result.status = "ValueError" => result.line = 17
        /\ args.integration_time = PyInt(5) =>
              /\ result.status # "ValueError"
              /\ result.num_data.n = 17280 /\ result.num_data.d = 1
        /\ args.integration_time = PyInt(7) => result.status = "ValueError"

\* C3: with variable_bits_per_record = 0 (valid cadence, fixed < capacity)
\* the estimation fails with a condition of its own: it neither returns a
\* rate nor runs into a division by zero.
C3_DegenerateRecordFails ==
    (/\ IsRate
     /\ Divides(args.integration_time)
     /\ result.fixed.n < Capacity * result.fixed.d
     /\ result.variable.n = 0) =>
        /\ result.status # "ok"
        /\ result.status # "ZeroDivisionError"

\* C4: when one record is larger than the available space
\* (0 < capacity - fixed < variable), the estimation fails before line 26
\* divides num_data by data_per_packet = 0, and returns no rate.
C4_OversizedRecordFails ==
    (/\ IsRate
     /\ Divides(args.integration_time)
     /\ result.fixed.n < Capacity * result.fixed.d
     /\ result.variable.n * result.fixed.d
            > (Capacity * result.fixed.d - result.fixed.n) * result.variable.d) =>
        /\ result.status # "ok"
        /\ ~(result.status = "ZeroDivisionError" /\ result.line = 26)

\* C5: with fixed_bits >= 32768 calculate_tm_rate never returns a total.
C5_OverflowingFixedFails ==
    (IsRate /\ result.fixed.n >= Capacity * result.fixed.d) =>
        result.status # "ok"

\* C6 as stated: rate identity.  For every successful estimation the
\* returned total is packets_per_day * (fixed + records_per_packet *
\* variable), packets_per_day * records_per_packet = 86400 /
\* integration_time, in integers total * records_per_packet = (86400 /
\* integration_time) * (fixed + records_per_packet * variable), and
\* packets_per_day is not rounded to whole packets.
C6_RateIdentityExact ==
    (IsRate /\ result.status = "ok") =>
        LET N == result.num_data
            q == result.data_per_packet
            used == PyAdd(result.fixed, PyMul(q, result.variable))
            T == BigMul(BigNat(N.n), BigNat(Abs(used.n)))
        IN /\ N.d = 1 /\ q.d = 1 /\ used.d = 1
           /\ Exactly(args.integration_time, N.n, 1, BigNat(DaySeconds))
           /\ result.returned = PyMul(result.num_packets, used)
           /\ Exactly(result.num_packets, q.n, 1, BigNat(N.n))
           /\ Exactly(result.returned, q.n, Sign(used), T)
           /\ N.n % Abs(q.n) # 0 => ~IsInteger(result.num_packets)

\* C6 up to rounding: for every successful estimation the returned total
\* is the double product packets_per_day * (fixed + records_per_packet *
\* variable), and the identities hold up to the rounding of the doubles:
\* records per day times the period is 86400 and packets_per_day *
\* records_per_packet is the records per day within a relative 2^-52, and
\* total * records_per_packet is records per day * (fixed +
\* records_per_packet * variable) within a relative 2^-51; packets_per_day
\* is not rounded to whole packets.
C6_RateIdentity ==
    (IsRate /\ result.status = "ok") =>
        LET N == result.num_data
            it == args.integration_time
            q == result.data_per_packet
            used == PyAdd(result.fixed, PyMul(q, result.variable))
            T == BigMul(BigNat(N.n), BigNat(Abs(used.n)))
        IN /\ N.d = 1 /\ q.d = 1 /\ used.d = 1
           /\ Close(it, N.n, 1, BigNat(DaySeconds), MantBits - 1)
           /\ result.returned = PyMul(result.num_packets, used)
           /\ result.returned = result.total_size
           /\ Close(result.num_packets, q.n, 1, BigNat(N.n), MantBits - 1)
           /\ Close(result.returned, q.n, Sign(used), T, MantBits - 2)
           /\ N.n % Abs(q.n) # 0 => ~IsInteger(result.num_packets)

\* a successful estimation with a fractional number of packets per day
\* whose product with the records per packet is not the records per day
C6_Witness ==
    /\ IsRate /\ result.status = "ok"
    /\ ~IsInteger(result.num_packets)
    /\ ~Exactly(result.num_packets, result.data_per_packet.n, 1,
                BigNat(result.num_data.n))
    /\ Sign(result.returned) = 1

\* C7: xray_level2 has the outcome of xray_level1 on the same arguments:
\* the same pair or the same failure.
C7_Level2IsLevel1 ==
    (op = "xray_level2" /\ Done) =>
        result = xray_level1(args.num_pixel_sets, args.num_energy_groups,
                             args.num_detector_masks)

\* xray_level2 has run, and failed as xray_level1 does
C7_Witness ==
    /\ op = "xray_level2" /\ Done
    /\ result.status = "NameError"
    /\ args.num_pixel_sets > 0 /\ args.num_energy_groups > 0

\* C8: every pair a size function returns consists of two non-negative
\* values of type int, and is the pair the same call returns again.
C8_SizesAreIntegers ==
    (op \in SizeOps /\ Done /\ result.status = "ok") =>
        /\ result.fixed.t = "int" /\ result.variable.t = "int"
        /\ result.fixed.d = 1 /\ result.variable.d = 1
        /\ result.fixed.n >= 0 /\ result.variable.n >= 0
        /\ result = SizeCall(op, args)

\* C9: variance returns the same pair for every num_energies, its variable
\* term is 8 bits per sample, its fixed term is the sum of its header fields
\* (one compression-schema triplet), and calculate_tm_rate(variance, _, 4)
\* packs floor((32768 - fixed) / 8) records per packet.
C9_VarianceScenario ==
    LET header == 8 + 32 + 16 + 16     \* SSID, SCET coarse, SCET fine, integration
                  + 8                  \* samples per variance
                  + 32 + 32            \* detector mask, energy mask
                  + 4 + 12             \* spare, pixel mask
                  + 1 + (1 + 3 + 3)    \* spare, compression schema S, K, M
                  + 16                 \* number of data points
    IN /\ (op = "variance" /\ Done) =>
            /\ result.status = "ok"
            /\ result.variable.d = 1 /\ result.variable.n = 8 * args.num_samples
            /\ args.num_samples = 1 => result.variable.n = 8
            /\ result.fixed.d = 1 /\ result.fixed.n = header
            /\ \A ne \in Energies : variance(ne, args.num_samples) = result
       /\ (IsRate /\ args.product.name = "variance"
                  /\ args.integration_time = PyInt(4)) =>
            /\ result.status = "ok"
            /\ result.fixed.n = header
            /\ result.variable.n = 8 /\ result.variable.d = 1
            /\ result.data_per_packet.d = 1
            /\ result.data_per_packet.n = (Capacity - header) \div 8

\* the variance estimation at a cadence of 4 s, with a non-zero energy count
C9_Witness ==
    /\ IsRate /\ args.product.name = "variance"
    /\ args.integration_time = PyInt(4)
    /\ args.num_energies = 5
    /\ result.status = "ok"
    /\ result.data_per_packet.n = 4073

\* C10: for every size function that returns a pair, raising one structural
\* parameter by one (the others unchanged) does not lower the variable term.
C10_VariableNonDecreasing ==
    (op \in SizeOps /\ Done /\ result.status = "ok") =>
        \A p \in DOMAIN args :
            LET more == SizeCall(op, [args EXCEPT ![p] = @ + 1])
            IN more.status = "ok" => PyLe(result.variable, more.variable)

\* a spectrogram sizing whose variable term grows with the energy count
C10_Witness ==
    /\ op = "spectrogram" /\ Done /\ result.status = "ok"
    /\ args.num_samples > 0
    /\ PyLt(result.variable,
            spectrogram(args.num_samples, args.num_energies + 1).variable)

\* C11: xray_level1 and xray_level3 read no name besides their parameters
\* num_pixel_sets, num_energy_groups and num_detector_masks, and return a
\* (fixed, variable) pair for every non-negative parameter set.
C11_OnlyDeclaredParameters ==
    (op \in {"xray_level1", "xray_level3"} /\ Done) =>
        /\ result.status # "NameError"
        /\ result.status = "ok"
        /\ result.fixed.t # "unbound" /\ result.variable.t # "unbound"

====
